---- MODULE Spec2Model ----
(***************************************************************************)
(* A model of dashcalc.py (and of the statistics loop of                   *)
(* eregistries-analysis.py): peer-group resolution, the analytics fetch    *)
(* loop, the 3-month rolling-average / peer-statistics computation, the    *)
(* area roll-up and the batching of the output data values.                *)
(*                                                                         *)
(* Strings that the scripts slice are sequences of one-character strings,  *)
(* so that a Python slice s[a:b] is SubSeq(s, a+1, b).  A month string     *)
(* 'YYYYMM' is the pair <<YYYY, MM>>.  Python dicts are functions; their   *)
(* iteration order (insertion order in Python) is the order of items(_).   *)
(***************************************************************************)
EXTENDS Integers, Sequences, FiniteSets, TLC

VARIABLES
    pc,                  \* position of the script
    thisMonthNumber,     \* dashcalc.py:186
    orgUnitLevel,        \* dashcalc.py:153
    peerLevel,           \* dashcalc.py:154
    monthCount,          \* dashcalc.py:155
    groupSets,           \* dashcalc.py:222  the 'Dashboard groups' group sets of the server
    peerGroupMap,        \* dashcalc.py:220
    dataOrgUnitLevels,   \* dashcalc.py:221
    indicatorAreas,      \* dashcalc.py:278
    elementNameId,       \* dashcalc.py:270
    input,               \* dashcalc.py:289  input[peerGroup][indicator][orgUnit][period]
    monthNumber,         \* dashcalc.py:393  loop variable of the compute loop
    output,              \* dashcalc.py:335  output['dataValues']
    maxGetMonths,        \* dashcalc.py:156
    indicators,          \* dashcalc.py:255  the indicators of the server
    pos,                 \* dashcalc.py:292-295  the loop variables i, level, loopCount (as indices)
    retry,               \* dashcalc.py:193  retry of the d2get call in progress
    indicatorErrorCount, \* dashcalc.py:288
    requests,            \* dashcalc.py:299  the analytics calls made so far
    failures,            \* dashcalc.py:300  the analytics calls whose error reached the except clause
    totalImported,       \* dashcalc.py:336
    totalUpdated,        \* dashcalc.py:337
    totalIgnored,        \* dashcalc.py:338
    flushRetry,          \* dashcalc.py:349  POSTs that flushOutput has made for the batch
    toPut,               \* dashcalc.py:393-457  the number of putOut calls of the month loop
    produced,            \* dashcalc.py:368  the putOut calls made so far
    finishing,           \* dashcalc.py:464  TRUE once the month loop has ended
    posts,               \* dashcalc.py:350  every POST made: its batch and the outcome
    flushes,             \* dashcalc.py:343  every flushOutput call that returned
    peerAverages,        \* dashcalc.py:398  the averages of one (peer group, indicator, month)
    stats                \* dashcalc.py:411-429  the statistics computed from them

cfgVars  == <<thisMonthNumber, orgUnitLevel, peerLevel, monthCount, indicatorAreas, elementNameId>>
peerVars == <<groupSets, peerGroupMap, dataOrgUnitLevels>>
outVars == <<totalImported, totalUpdated, totalIgnored, flushRetry, toPut, produced, finishing,
             posts, flushes>>
fetchVars == <<maxGetMonths, indicators, pos, retry, indicatorErrorCount, requests, failures>>
calcVars == <<input, monthNumber, output>>
statVars == <<peerAverages, stats>>

vars == <<pc, cfgVars, peerVars, fetchVars, calcVars, statVars, outVars>>

----------------------------------------------------------------------------
(* Bounds of the model *)

MaxRows == 3             \* stored (indicator, orgUnit, period) cells in the compute model
MaxCount == 2            \* largest configured "count" (months to compute)
ThisMonth == 24242       \* the month of the run, as a month number (March 2020)
MaxPeers == 4            \* facilities of one peer group in the statistics model
MaxLevel == 3            \* largest configured "orgUnitLevel" in the peer-group model
MaxExtraRecords == 1     \* putOut calls beyond the flush threshold in the output model
MaxGroupSize == 2        \* organisation units listed in one organisation unit group

----------------------------------------------------------------------------
(* Program constants *)

FlushThreshold == 4000   \* dashcalc.py:377
UidLen == 11             \* dashcalc.py:229  a DHIS 2 UID; a path is '/' + UID per level
MaxRetry == 3            \* dashcalc.py:202  d2get gives up when retry > 3
MaxPosts == 20           \* dashcalc.py:349  for retry in range(20)

----------------------------------------------------------------------------
(* Strings *)

Str4(a, b, c, d) == <<a, b, c, d>>
Dash == Str4("d", "a", "s", "h")

\* an 11-character UID made of one repeated character
Uid(c) == [i \in 1..UidLen |-> c]

\* Python s[a:b] for 0 <= a <= b
Slice(s, a, b) == SubSeq(s, a + 1, IF b > Len(s) THEN Len(s) ELSE b)

----------------------------------------------------------------------------
(* Months *)

\* toNumber('YYYYMM')
toNumber(month) == month[1] * 12 + month[2] - 1

\* toMonth(monthNumber): str(n//12) + str(101 + n%12)[1:]
toMonth(n) == <<n \div 12, (n % 12) + 1>>

----------------------------------------------------------------------------
(* Arithmetic *)

RECURSIVE Sum(_)
Sum(s) == IF s = <<>> THEN 0 ELSE Head(s) + Sum(Tail(s))

\* int(round(num / den)) for den > 0: Python 3 round() rounds an exact half
\* to the nearest even integer.
PyRoundHalfUp(num, den) ==
    LET q == num \div den
        r == num % den
    IN  IF 2 * r < den THEN q ELSE q + 1

PyRound(num, den) ==
    LET q == num \div den
        r == num % den
    IN  IF 2 * r < den THEN q
        ELSE IF 2 * r > den THEN q + 1
        ELSE IF q % 2 = 0 THEN q ELSE q + 1

RoundMeanZeroFilled(values) == PyRound(Sum(values), 3)

\* int( round( statistics.mean( values ) ) )
RoundMean(values) == PyRound(Sum(values), Len(values))

\* list.sort() on integers (insertion sort; the result is the ascending list)
RECURSIVE Insert(_, _)
Insert(x, s) ==
    IF s = <<>> THEN <<x>>
    ELSE IF x <= Head(s) THEN <<x>> \o s
    ELSE <<Head(s)>> \o Insert(x, Tail(s))

RECURSIVE Sort(_)
Sort(s) == IF s = <<>> THEN <<>> ELSE Insert(Head(s), Sort(Tail(s)))

\* sum( [ P(a) for a in s ] )
RECURSIVE CountLE(_, _)
CountLE(s, x) ==
    IF s = <<>> THEN 0
    ELSE (IF Head(s) <= x THEN 1 ELSE 0) + CountLE(Tail(s), x)

RECURSIVE CountGT(_, _)
CountGT(s, x) ==
    IF s = <<>> THEN 0
    ELSE (IF Head(s) > x THEN 1 ELSE 0) + CountGT(Tail(s), x)

\* iteration order of a dict's keys
RECURSIVE items(_)
items(S) ==
    IF S = {} THEN <<>>
    ELSE LET x == CHOOSE y \in S : TRUE IN <<x>> \o items(S \ {x})

----------------------------------------------------------------------------
(* Output records *)

DefaultCoc == "defaultCoc"

\* the data value that putOut appends
DataValue(orgUnit, month, dataElement, value) ==
    [orgUnit |-> orgUnit, period |-> month, dataElement |-> dataElement,
     value |-> value,
     categoryOptionCombo |-> DefaultCoc, attributeOptionCombo |-> DefaultCoc]

\* putOutByName: the records it hands to putOut (none if the name is unknown)
putOutByName(names, orgUnit, month, dataElementName, value) ==
    IF dataElementName \in DOMAIN names
    THEN <<DataValue(orgUnit, month, names[dataElementName], value)>>
    ELSE <<>>

\* 'de' + indicator[4:]
uidBase(indicator) == <<"d", "e">> \o Slice(indicator, 4, Len(indicator))

\* uidBase + 'Av', uidBase + 'Q1', ...
Elem(indicator, a, b) == uidBase(indicator) \o <<a, b>>

----------------------------------------------------------------------------
(* WindowAggregator *)

threeMonthsShifted(periods, mn, valueType) ==
    LET pick(m) == IF m \in DOMAIN periods THEN <<periods[m][valueType]>> ELSE <<>>
    IN  pick(mn - 3) \o pick(mn - 2) \o pick(mn - 1) \o pick(mn)

threeMonths(periods, mn, valueType) ==
    LET pick(m) == IF m \in DOMAIN periods THEN <<periods[m][valueType]>> ELSE <<>>
    IN  pick(mn - 2) \o pick(mn - 1) \o pick(mn)

----------------------------------------------------------------------------
(* AreaAggregator: areas = { area: { orgUnit: [ average1, average2, ... ] } } *)

EmptyDict == <<>>

addAreaValueOverwrite(areas, area, orgUnit, value) ==
    LET orgUnits == IF area \in DOMAIN areas THEN areas[area] ELSE EmptyDict
        new      == (orgUnit :> <<value>>) @@ orgUnits
    IN  (area :> new) @@ areas

addAreaValue(areas, area, orgUnit, value) ==
    LET orgUnits == IF area \in DOMAIN areas THEN areas[area] ELSE EmptyDict
        old      == IF orgUnit \in DOMAIN orgUnits THEN orgUnits[orgUnit] ELSE <<>>
        new      == (orgUnit :> Append(old, value)) @@ orgUnits
    IN  (area :> new) @@ areas

----------------------------------------------------------------------------
(* PeerStatistics *)

\* averages [ int( (count-1) * num/den ) ], the list being sorted
QuartileCeil(averages, num, den) ==
    averages[(((Len(averages) - 1) * num + den - 1) \div den) + 1]

Quartile(averages, num, den) ==
    averages[(((Len(averages) - 1) * num) \div den) + 1]

\* int( round( numpy.std( averages ) ) ) or 0, in exact arithmetic:
\* std = sqrt(N) / n with N = n * sum(a^2) - sum(a)^2
StdDev(averages) ==
    LET n  == Len(averages)
        sq == [i \in 1..n |-> averages[i] * averages[i]]
        N  == n * Sum(sq) - Sum(averages) * Sum(averages)
        hi == averages[n] - averages[1] + 1
        k  == CHOOSE j \in 0..hi :
                 /\ (j = 0 \/ (2*j - 1) * (2*j - 1) * n * n <= 4 * N)
                 /\ 4 * N < (2*j + 1) * (2*j + 1) * n * n
        tie == k > 0 /\ (2*k - 1) * (2*k - 1) * n * n = 4 * N
    IN  IF tie /\ k % 2 = 1 THEN k - 1 ELSE k

bigRankStrict(averages, mean) == CountLE(averages, mean - 1)

bigRank(averages, mean) == CountLE(averages, mean)

\* the small rank with the peers of equal average counted as better
smallRankTiesAbove(averages, mean) == CountGT(averages, mean - 1) + 1

smallRank(averages, mean) == CountGT(averages, mean) + 1

percentile(rank, count) == PyRound(100 * rank, count)

\* lines 416-418: q1, q2, q3 of the sorted averages
Quartiles(averages) ==
    << PyRound(Quartile(averages, 1, 4), 1),
       PyRound(Quartile(averages, 1, 2), 1),
       PyRound(Quartile(averages, 3, 4), 1) >>

\* eregistries-analysis.py, lines 157-160: q1, q2, q3 of the sorted averages
AnalysisQuartiles(averages) ==
    << averages[(((Len(averages) - 1) * 1) \div 4) + 1],
       averages[(((Len(averages) - 1) * 1) \div 2) + 1],
       averages[(((Len(averages) - 1) * 3) \div 4) + 1] >>

\* lines 427-429: bigRank, percentile and smallRank of a facility whose
\* rolling average is mean
Ranks(averages, count, mean) ==
    [bigRank    |-> bigRank(averages, mean),
     percentile |-> percentile(bigRank(averages, mean), count),
     smallRank  |-> smallRank(averages, mean)]

----------------------------------------------------------------------------
(* The compute loop, one (peer group, indicator, month) at a time *)

\* lines 398-410: the loop that collects the averages of one indicator;
\* acc = [averages, allPeersValues, areas]
RECURSIVE CollectAverages(_, _, _, _, _, _)
CollectAverages(ous, orgUnits, indicator, mn, indAreas, acc) ==
    IF ous = <<>> THEN acc
    ELSE
      LET orgUnit == Head(ous)
          values  == threeMonths(orgUnits[orgUnit], mn, "value")
          acc1    == [acc EXCEPT !.allPeersValues = @ \o values]
      IN  IF Len(values) = 0
          THEN CollectAverages(Tail(ous), orgUnits, indicator, mn, indAreas, acc1)
          ELSE
            LET average == RoundMean(values)
                acc2 == [acc1 EXCEPT
                           !.averages = Append(@, average),
                           !.areas = IF indicator \in DOMAIN indAreas
                                     THEN addAreaValue(@, indAreas[indicator], orgUnit, average)
                                     ELSE @]
            IN  CollectAverages(Tail(ous), orgUnits, indicator, mn, indAreas, acc2)

\* lines 422-441: the records of one orgUnit
OrgUnitRecords(orgUnit, periods, indicator, mn, averages, count, q, stddev, allPeersMean) ==
    LET values == threeMonths(periods, mn, "value")
        month  == toMonth(mn)
    IN  IF Len(values) = 0 THEN <<>>
        ELSE
          LET mean  == RoundMean(values)
              rk    == Ranks(averages, count, mean)
              bigR  == rk.bigRank
              pct   == rk.percentile
              smallR == rk.smallRank
              denominatorSum == Sum(threeMonths(periods, mn, "denominator"))
          IN  << DataValue(orgUnit, month, Elem(indicator, "A", "v"), mean),
                 DataValue(orgUnit, month, Elem(indicator, "Q", "1"), q[1]),
                 DataValue(orgUnit, month, Elem(indicator, "Q", "2"), q[2]),
                 DataValue(orgUnit, month, Elem(indicator, "Q", "3"), q[3]),
                 DataValue(orgUnit, month, Elem(indicator, "D", "R"), pct),
                 DataValue(orgUnit, month, Elem(indicator, "s", "z"), count),
                 DataValue(orgUnit, month, Elem(indicator, "o", "r"), bigR),
                 DataValue(orgUnit, month, Elem(indicator, "s", "r"), smallR),
                 DataValue(orgUnit, month, Elem(indicator, "s", "d"), stddev),
                 DataValue(orgUnit, month, Elem(indicator, "D", "M"), allPeersMean),
                 DataValue(orgUnit, month, Elem(indicator, "d", "3"), denominatorSum) >>

RECURSIVE EmitOrgUnits(_, _, _, _, _, _, _, _, _)
EmitOrgUnits(ous, orgUnits, indicator, mn, averages, count, q, stddev, allPeersMean) ==
    IF ous = <<>> THEN <<>>
    ELSE OrgUnitRecords(Head(ous), orgUnits[Head(ous)], indicator, mn,
                        averages, count, q, stddev, allPeersMean)
         \o EmitOrgUnits(Tail(ous), orgUnits, indicator, mn,
                         averages, count, q, stddev, allPeersMean)

\* lines 397-441: one indicator of one peer group; acc = [recs, areas]
IndicatorStep(indicator, orgUnits, mn, indAreas, acc) ==
    LET ous == items(DOMAIN orgUnits)
        c   == CollectAverages(ous, orgUnits, indicator, mn, indAreas,
                   [averages |-> <<>>, allPeersValues |-> <<>>, areas |-> acc.areas])
        count == Len(c.averages)
    IN  IF count = 0 THEN [acc EXCEPT !.areas = c.areas]
        ELSE
          LET allPeersMean == RoundMean(c.allPeersValues)
              averages == Sort(c.averages)
              q == Quartiles(averages)
              stddev == StdDev(averages)
          IN  [recs  |-> acc.recs \o EmitOrgUnits(ous, orgUnits, indicator, mn,
                                        averages, count, q, stddev, allPeersMean),
               areas |-> c.areas]

RECURSIVE IndicatorLoop(_, _, _, _, _)
IndicatorLoop(inds, pgIndicators, mn, indAreas, acc) ==
    IF inds = <<>> THEN acc
    ELSE IndicatorLoop(Tail(inds), pgIndicators, mn, indAreas,
             IndicatorStep(Head(inds), pgIndicators[Head(inds)], mn, indAreas, acc))

\* lines 445-448: the sorted list of the area averages
RECURSIVE AreaAverages(_, _)
AreaAverages(ous, orgUnitAverages) ==
    IF ous = <<>> THEN <<>>
    ELSE <<RoundMean(orgUnitAverages[Head(ous)])>> \o AreaAverages(Tail(ous), orgUnitAverages)

\* lines 452-457
RECURSIVE EmitArea(_, _, _, _, _, _)
EmitArea(ous, orgUnitAverages, area, mn, areaAverages, names) ==
    IF ous = <<>> THEN <<>>
    ELSE
      LET orgUnit == Head(ous)
          mean == RoundMean(orgUnitAverages[orgUnit])
          bigR == bigRank(areaAverages, mean)
          pct  == percentile(bigR, Len(areaAverages))
      IN  putOutByName(names, orgUnit, toMonth(mn), <<"Overall Average: ", area>>, mean)
          \o putOutByName(names, orgUnit, toMonth(mn), <<"Overall Rank: ", area>>, pct)
          \o EmitArea(Tail(ous), orgUnitAverages, area, mn, areaAverages, names)

\* lines 444-457
RECURSIVE AreaLoop(_, _, _, _)
AreaLoop(as, areas, mn, names) ==
    IF as = <<>> THEN <<>>
    ELSE
      LET area == Head(as)
          ous  == items(DOMAIN areas[area])
          areaAverages == Sort(AreaAverages(ous, areas[area]))
      IN  EmitArea(ous, areas[area], area, mn, areaAverages, names)
          \o AreaLoop(Tail(as), areas, mn, names)

\* lines 395-457: one peer group in one month; areas starts empty
PeerGroupRecords(pgIndicators, mn, indAreas, names) ==
    LET r == IndicatorLoop(items(DOMAIN pgIndicators), pgIndicators, mn, indAreas,
                           [recs |-> <<>>, areas |-> EmptyDict])
    IN  r.recs \o AreaLoop(items(DOMAIN r.areas), r.areas, mn, names)

RECURSIVE PeerGroupLoop(_, _, _, _, _)
PeerGroupLoop(pgs, inp, mn, indAreas, names) ==
    IF pgs = <<>> THEN <<>>
    ELSE PeerGroupRecords(inp[Head(pgs)], mn, indAreas, names)
         \o PeerGroupLoop(Tail(pgs), inp, mn, indAreas, names)

\* lines 394-457: the body of the month loop: every record handed to putOut
MonthRecords(inp, mn, indAreas, names) ==
    PeerGroupLoop(items(DOMAIN inp), inp, mn, indAreas, names)

----------------------------------------------------------------------------
(* TimeSeriesStore: lines 303-317, one analytics row *)

StoreRow(inp, pgm, r) ==
    LET indicator == r.dx
        orgUnit   == r.ou
        period    == toNumber(r.pe)
    IN  IF orgUnit \notin DOMAIN pgm THEN inp
        ELSE
          LET peerGroup == pgm[orgUnit]
              i1 == IF peerGroup \in DOMAIN inp THEN inp[peerGroup] ELSE EmptyDict
              i2 == IF indicator \in DOMAIN i1 THEN i1[indicator] ELSE EmptyDict
              i3 == IF orgUnit \in DOMAIN i2 THEN i2[orgUnit] ELSE EmptyDict
              cell == [value |-> r.value, denominator |-> r.denominator]
          IN  (peerGroup :> ((indicator :> ((orgUnit :> ((period :> cell) @@ i3)) @@ i2)) @@ i1))
              @@ inp

----------------------------------------------------------------------------
(* PeerGroupResolver *)

\* Python s[-a:-b] for a >= b > 0
TailSlice(s, a, b) ==
    Slice(s, IF Len(s) > a THEN Len(s) - a ELSE 0, IF Len(s) > b THEN Len(s) - b ELSE 0)

\* lines 227-235: one facility of an organisation unit group;
\* acc = [map, levels]; startMonth stands for str(startOfCurrentMonth)
ResolveFacilityNoRootCheck(acc, facility, name, oul, startMonth) ==
    IF "closedDate" \notin DOMAIN facility \/ facility.closedDate >= startMonth
    THEN IF facility.level > oul
         THEN [map    |-> (facility.id :> (Slice(facility.path, 12 * oul - 11, 12 * oul)
                                            \o <<"-">> \o name)) @@ acc.map,
               levels |-> acc.levels \cup {facility.level}]
         ELSE [map    |-> (facility.id :> (TailSlice(facility.path, 23, 12)
                                            \o <<"-">> \o name)) @@ acc.map,
               levels |-> acc.levels \cup {facility.level}]
    ELSE acc

ResolveFacility(acc, facility, name, oul, startMonth) ==
    IF "closedDate" \notin DOMAIN facility \/ facility.closedDate >= startMonth
    THEN IF facility.level > oul
         THEN [map    |-> (facility.id :> (Slice(facility.path, 12 * oul - 11, 12 * oul)
                                            \o <<"-">> \o name)) @@ acc.map,
               levels |-> acc.levels \cup {facility.level}]
         ELSE IF facility.level > 1
         THEN [map    |-> (facility.id :> (TailSlice(facility.path, 23, 12)
                                            \o <<"-">> \o name)) @@ acc.map,
               levels |-> acc.levels \cup {facility.level}]
         ELSE acc
    ELSE acc

\* line 226: the facilities of one group
RECURSIVE ResolveGroup(_, _, _, _, _)
ResolveGroup(acc, facilities, name, oul, startMonth) ==
    IF facilities = <<>> THEN acc
    ELSE ResolveGroup(ResolveFacility(acc, Head(facilities), name, oul, startMonth),
                      Tail(facilities), name, oul, startMonth)

\* line 224: the groups of the group set
RECURSIVE ResolveGroups(_, _, _, _)
ResolveGroups(acc, ouGroups, oul, startMonth) ==
    IF ouGroups = <<>> THEN acc
    ELSE ResolveGroups(ResolveGroup(acc, Head(ouGroups).organisationUnits,
                                    Head(ouGroups).name, oul, startMonth),
                       Tail(ouGroups), oul, startMonth)

\* lines 246-249: the facilities of the peer level when there is no group set
RECURSIVE ResolveLevel(_, _, _, _)
ResolveLevel(map, facilities, oul, startMonth) ==
    IF facilities = <<>> THEN map
    ELSE LET facility == Head(facilities)
         IN  ResolveLevel(
                 IF "closedDate" \notin DOMAIN facility \/ facility.closedDate >= startMonth
                 THEN (facility.id :> Slice(facility.path, 12 * oul - 11, 12 * oul)) @@ map
                 ELSE map,
                 Tail(facilities), oul, startMonth)

----------------------------------------------------------------------------
(* The organisation units of the server: R at level 1; P and Q below R;    *)
(* A and B below P; C and D below Q.  D closed last month, C closes this   *)
(* month.                                                                  *)

UnitR == Uid("R")
UnitP == Uid("P")
UnitQ == Uid("Q")
FacA == Uid("A")
FacB == Uid("B")
FacC == Uid("C")
FacD == Uid("D")
FacX == Uid("X")          \* an organisation unit below P that is in no group

OrgUnits == {UnitR, UnitP, UnitQ, FacA, FacB, FacC, FacD, FacX}

ParentOf == (UnitP :> UnitR) @@ (UnitQ :> UnitR) @@ (FacA :> UnitP) @@ (FacB :> UnitP)
            @@ (FacC :> UnitQ) @@ (FacD :> UnitQ) @@ (FacX :> UnitP)

RECURSIVE PathOf(_)
PathOf(u) == (IF u \in DOMAIN ParentOf THEN PathOf(ParentOf[u]) ELSE <<>>) \o <<"/">> \o u

LevelOf(u) == Len(PathOf(u)) \div (UidLen + 1)

\* an organisation unit as the server lists it (closedDate as a month number)
Facility(u, tmn) ==
    LET f == [id |-> u, level |-> LevelOf(u), path |-> PathOf(u)]
    IN  IF u = FacD THEN f @@ [closedDate |-> tmn - 1]
        ELSE IF u = FacC THEN f @@ [closedDate |-> tmn]
        ELSE f

----------------------------------------------------------------------------
(* The compute model: any store of at most MaxRows cells, then the month   *)
(* loop of lines 393-457.                                                  *)

GroupP == UnitP \o <<"-", "g">>
GroupQ == UnitQ \o <<"-", "g">>

\* the group set of the compute model: one group that lists A, B and C
CalcGroupSets ==
    << [organisationUnitGroups |->
          << [name |-> <<"g">>,
              organisationUnits |-> << Facility(FacA, ThisMonth), Facility(FacB, ThisMonth),
                                       Facility(FacC, ThisMonth) >>] >>] >>

CalcResolved ==
    ResolveGroups([map |-> EmptyDict, levels |-> {}],
                  CalcGroupSets[1].organisationUnitGroups, 2, ThisMonth)

CalcPeerGroupMap == CalcResolved.map

DashA == Dash \o <<"A">>
DashB == Dash \o <<"B">>
CalcIndicators == {DashA, DashB}
CalcValues == {11, 14}
CalcDenominators == {2}

\* the indicator-to-area mappings the runs start from
CalcAreas ==
    { (DashA :> "N") @@ (DashB :> "N"),
      (DashA :> "N") }

\* 'Overall ...: M' is not a data element of the target system
CalcElementNameId ==
    (<<"Overall Average: ", "N">> :> <<"a", "v", "N">>)
    @@ (<<"Overall Rank: ", "N">> :> <<"r", "k", "N">>)

\* the months the analytics queries ask for (line 291)
QueryMonths(tmn, count) == (tmn - (count + 2)) .. (tmn - 1)

CalcRows(tmn, count) ==
    [dx : CalcIndicators, ou : {FacA, FacB, FacC, FacX},
     pe : {toMonth(m) : m \in QueryMonths(tmn, count)},
     value : CalcValues, denominator : CalcDenominators]

\* number of (peer group, indicator, orgUnit, period) cells of the store
CellCount(inp) ==
    Cardinality({ c \in UNION { UNION { UNION { { <<pg, i, ou, m>> : m \in DOMAIN inp[pg][i][ou] }
                                                : ou \in DOMAIN inp[pg][i] }
                                        : i \in DOMAIN inp[pg] }
                                : pg \in DOMAIN inp } : TRUE })

\* lines 335-338: nothing has been put out or posted
NoOutput ==
    /\ totalImported = 0
    /\ totalUpdated = 0
    /\ totalIgnored = 0
    /\ flushRetry = 0
    /\ toPut = 0
    /\ produced = 0
    /\ finishing = FALSE
    /\ posts = <<>>
    /\ flushes = <<>>

\* the fetch loop has not run: the values of its variables before line 292
NoFetchLoop ==
    /\ maxGetMonths = monthCount + 2
    /\ indicators = <<>>
    /\ pos = [i |-> 1, l |-> 1, c |-> 0]
    /\ retry = 0
    /\ indicatorErrorCount = 0
    /\ requests = <<>>
    /\ failures = <<>>

CalcInit ==
    /\ pc = "fetch"
    /\ thisMonthNumber = ThisMonth
    /\ orgUnitLevel = 2
    /\ peerLevel = orgUnitLevel + 1
    /\ monthCount \in 1..MaxCount
    /\ groupSets = CalcGroupSets
    /\ peerGroupMap = CalcPeerGroupMap
    /\ dataOrgUnitLevels = CalcResolved.levels
    /\ indicatorAreas \in CalcAreas
    /\ elementNameId = CalcElementNameId
    /\ input = EmptyDict
    /\ monthNumber = thisMonthNumber - monthCount
    /\ output = <<>>
    /\ NoFetchLoop
    /\ NoOutput
    /\ peerAverages = <<>>
    /\ stats = <<>>

\* lines 303-317 for one row of an analytics response
FetchRow ==
    /\ pc = "fetch"
    /\ CellCount(input) < MaxRows
    /\ \E r \in CalcRows(thisMonthNumber, monthCount) :
          input' = StoreRow(input, peerGroupMap, r)
    /\ UNCHANGED <<pc, cfgVars, peerVars, fetchVars, monthNumber, output, statVars, outVars>>

\* lines 393-457: one iteration of the month loop (the first one ends the
\* fetch phase); the batch stays below the flush threshold, so putOut only
\* appends
ComputeMonth ==
    /\ pc \in {"fetch", "compute"}
    /\ monthNumber < thisMonthNumber
    /\ LET recs == MonthRecords(input, monthNumber, indicatorAreas, elementNameId)
       IN  /\ Len(output) + Len(recs) < FlushThreshold
           /\ output' = output \o recs
    /\ monthNumber' = monthNumber + 1
    /\ pc' = IF monthNumber + 1 = thisMonthNumber THEN "computed" ELSE "compute"
    /\ UNCHANGED <<cfgVars, peerVars, fetchVars, input, statVars, outVars>>

CalcNext == FetchRow \/ ComputeMonth

SpecCalc == CalcInit /\ [][CalcNext]_vars

----------------------------------------------------------------------------
(* Properties of the compute model *)

\* the months whose iteration of the month loop has completed
MonthsDone == (thisMonthNumber - monthCount) .. (monthNumber - 1)

Window(m) == {m - 2, m - 1, m}

PeerGroups == {peerGroupMap[ou] : ou \in DOMAIN peerGroupMap}
Members(pg) == {ou \in DOMAIN peerGroupMap : peerGroupMap[ou] = pg}

\* the months of the window of m for which the store holds a value
Present(pg, ind, ou, m) ==
    IF pg \in DOMAIN input /\ ind \in DOMAIN input[pg] /\ ou \in DOMAIN input[pg][ind]
    THEN Window(m) \cap DOMAIN input[pg][ind][ou]
    ELSE {}

Contributing(pg, ind, m) == {ou \in Members(pg) : Present(pg, ind, ou, m) # {}}

Suffixes == {<<"A","v">>, <<"Q","1">>, <<"Q","2">>, <<"Q","3">>, <<"D","R">>, <<"s","z">>,
             <<"o","r">>, <<"s","r">>, <<"s","d">>, <<"D","M">>, <<"d","3">>}

\* positions of the batch that hold a record of an indicator (not of an area)
IndicatorRecs == {i \in 1..Len(output) : Slice(output[i].dataElement, 0, 2) = <<"d", "e">>}

\* positions of the batch that hold the given element of an indicator
ElemRecs(a, b) ==
    {i \in IndicatorRecs :
        LET de == output[i].dataElement
        IN  Slice(de, Len(de) - 2, Len(de)) = <<a, b>>}

RECURSIVE SetSum(_, _)
SetSum(S, f) ==
    IF S = {} THEN 0
    ELSE LET x == CHOOSE y \in S : TRUE IN f[x] + SetSum(S \ {x}, f)

\* v is an integer nearest to total / n
NearestTo(v, total, n) == n > 0 /\ 2 * v * n - 2 * total <= n /\ 2 * total - 2 * v * n <= n

\* the (facility, period, data element) triples that must carry a record
ExpectedKeys ==
    UNION { UNION { UNION { { <<ou, toMonth(m), uidBase(ind) \o sfx>> : sfx \in Suffixes }
                            : ou \in Contributing(pg, ind, m) }
                    : pg \in PeerGroups }
            : <<ind, m>> \in CalcIndicators \X MonthsDone }

ExpectedSizes ==
    UNION { UNION { { <<ou, toMonth(m), Elem(ind, "s", "z"), Cardinality(Contributing(pg, ind, m))>>
                      : ou \in Contributing(pg, ind, m) }
                    : pg \in PeerGroups }
            : <<ind, m>> \in CalcIndicators \X MonthsDone }

\* C1: for every (peer group, indicator, completed month), each of the eleven
\* data elements has exactly one record for each member facility that has a
\* stored value in the window {m-2, m-1, m} and none for any other facility
\* (so a group without such a facility has none); the 'sz' value of each of
\* these records is the number of those facilities.
C1_ContributingSet ==
    /\ { <<output[i].orgUnit, output[i].period, output[i].dataElement>> : i \in IndicatorRecs }
         = ExpectedKeys
    /\ Cardinality(IndicatorRecs) = Cardinality(ExpectedKeys)
    /\ { <<output[i].orgUnit, output[i].period, output[i].dataElement, output[i].value>>
           : i \in ElemRecs("s", "z") } = ExpectedSizes

\* a group of two members where one contributes to the first target month
\* and both to the second, and a group with data that emits nothing
C1_Witness ==
    /\ pc = "computed"
    /\ monthCount = 2
    /\ Contributing(GroupP, DashA, thisMonthNumber - 2) = {FacA}
    /\ FacB \in DOMAIN input[GroupP][DashA]
    /\ Contributing(GroupP, DashA, thisMonthNumber - 1) = {FacA, FacB}
    /\ Contributing(GroupP, DashB, thisMonthNumber - 1) = {}
    /\ Cardinality(IndicatorRecs) = 33

\* C2: every 'Av' record of a facility, indicator and month m is the integer
\* nearest to (sum of the values stored at the months of {m-2, m-1, m} that
\* are present) / (number of those months): absent months are not counted
\* and other months play no part; a facility with one or two of the three
\* months present has such a record.
C2_WindowMean ==
    /\ \A i \in ElemRecs("A", "v") :
          \E ind \in CalcIndicators : \E m \in MonthsDone :
             LET ou == output[i].orgUnit
                 pg == peerGroupMap[ou]
                 ms == Present(pg, ind, ou, m)
             IN  /\ output[i].period = toMonth(m)
                 /\ output[i].dataElement = Elem(ind, "A", "v")
                 /\ ms # {}
                 /\ NearestTo(output[i].value,
                              SetSum(ms, [k \in ms |-> input[pg][ind][ou][k].value]),
                              Cardinality(ms))
    /\ \A ind \in CalcIndicators : \A m \in MonthsDone : \A ou \in DOMAIN peerGroupMap :
          Cardinality(Present(peerGroupMap[ou], ind, ou, m)) \in {1, 2}
             => \E i \in ElemRecs("A", "v") :
                   /\ output[i].orgUnit = ou
                   /\ output[i].period = toMonth(m)
                   /\ output[i].dataElement = Elem(ind, "A", "v")

\* a facility with two of the three window months present in one target
\* month and one in the other, and a larger value stored outside the window
C2_Witness ==
    /\ pc = "computed"
    /\ monthCount = 2
    /\ GroupP \in DOMAIN input /\ DashA \in DOMAIN input[GroupP]
    /\ FacA \in DOMAIN input[GroupP][DashA]
    /\ LET p == input[GroupP][DashA][FacA] IN
          /\ DOMAIN p = {thisMonthNumber - 4, thisMonthNumber - 2, thisMonthNumber - 1}
          /\ p[thisMonthNumber - 4].value = 14
          /\ p[thisMonthNumber - 2].value = 11
          /\ p[thisMonthNumber - 1].value = 11
    /\ \E i \in ElemRecs("A", "v") :
          output[i].value = 11 /\ output[i].period = toMonth(thisMonthNumber - 1)

\* the indicator and month of an indicator record
RecKey(i) ==
    CHOOSE k \in CalcIndicators \X MonthsDone :
        /\ output[i].period = toMonth(k[2])
        /\ Slice(output[i].dataElement, 0, Len(output[i].dataElement) - 2) = uidBase(k[1])

\* the months of the window that the store holds for record i, and their sum
RecMonths(i) ==
    Present(peerGroupMap[output[i].orgUnit], RecKey(i)[1], output[i].orgUnit, RecKey(i)[2])

RecTotal(i) ==
    LET ou == output[i].orgUnit
        p  == input[peerGroupMap[ou]][RecKey(i)[1]][ou]
    IN  SetSum(RecMonths(i), [k \in RecMonths(i) |-> p[k].value])

\* total / n lies exactly halfway between two integers
Halfway(total, n) == (2 * total) % n = 0 /\ ((2 * total) \div n) % 2 = 1

\* the 'Av' value of a facility, indicator and month
AvValue(ou, ind, m) ==
    output[CHOOSE i \in ElemRecs("A", "v") :
              /\ output[i].orgUnit = ou
              /\ output[i].period = toMonth(m)
              /\ output[i].dataElement = Elem(ind, "A", "v")].value

Areas == {indicatorAreas[ind] : ind \in DOMAIN indicatorAreas}

\* the indicators of an area for which the facility has window data
AreaIndicators(ou, m, area) ==
    {ind \in DOMAIN indicatorAreas :
        /\ indicatorAreas[ind] = area
        /\ Present(peerGroupMap[ou], ind, ou, m) # {}}

AreaTotal(ou, m, area) ==
    SetSum(AreaIndicators(ou, m, area),
           [ind \in AreaIndicators(ou, m, area) |-> AvValue(ou, ind, m)])

\* positions of the batch that hold the area average of a facility and month
AreaAvgRecs(ou, m, area) ==
    {i \in 1..Len(output) :
        /\ output[i].orgUnit = ou
        /\ output[i].period = toMonth(m)
        /\ output[i].dataElement = elementNameId[<<"Overall Average: ", area>>]}

AllAreaAvgRecs ==
    {i \in 1..Len(output) :
        \E area \in Areas : output[i].dataElement = elementNameId[<<"Overall Average: ", area>>]}

\* C5 as stated: a mean that lies exactly halfway between two integers is
\* emitted as the one further from zero (10.5 as 11, 12.5 as 13).
C5_HalfAwayFromZero ==
    /\ \A i \in ElemRecs("A", "v") :
          Halfway(RecTotal(i), Cardinality(RecMonths(i)))
             => output[i].value = (RecTotal(i) \div Cardinality(RecMonths(i))) + 1
    /\ \A area \in Areas : \A m \in MonthsDone : \A ou \in DOMAIN peerGroupMap :
          \A i \in AreaAvgRecs(ou, m, area) :
             Halfway(AreaTotal(ou, m, area), Cardinality(AreaIndicators(ou, m, area)))
                => output[i].value =
                      (AreaTotal(ou, m, area) \div Cardinality(AreaIndicators(ou, m, area))) + 1

\* C5, amended: a mean that lies exactly halfway between two integers is
\* emitted as the even one of the two (12.5 as 12, 11.5 as 12), for the
\* rolling average and for the area average.
C5_HalfToEven ==
    /\ \A i \in ElemRecs("A", "v") :
          Halfway(RecTotal(i), Cardinality(RecMonths(i)))
             => /\ output[i].value % 2 = 0
                /\ NearestTo(output[i].value, RecTotal(i), Cardinality(RecMonths(i)))
    /\ \A area \in Areas : \A m \in MonthsDone : \A ou \in DOMAIN peerGroupMap :
          \A i \in AreaAvgRecs(ou, m, area) :
             Halfway(AreaTotal(ou, m, area), Cardinality(AreaIndicators(ou, m, area)))
                => /\ output[i].value % 2 = 0
                   /\ NearestTo(output[i].value, AreaTotal(ou, m, area),
                                Cardinality(AreaIndicators(ou, m, area)))

\* a rolling average of 12.5 emitted as 12 and an area average of 11.5
\* emitted as 12
C5_Witness ==
    /\ pc = "computed"
    /\ \E i \in ElemRecs("A", "v") :
          /\ RecTotal(i) = 25 /\ Cardinality(RecMonths(i)) = 2
          /\ output[i].value = 12
    /\ \E ou \in DOMAIN peerGroupMap : \E m \in MonthsDone : \E i \in AreaAvgRecs(ou, m, "N") :
          /\ AreaTotal(ou, m, "N") = 23 /\ Cardinality(AreaIndicators(ou, m, "N")) = 2
          /\ output[i].value = 12

\* C10: for every facility, area and completed month there is one area
\* average record if the facility has window data for an indicator of the
\* area (in its peer group) and none otherwise; its value is the integer
\* nearest to the mean of the facility's 'Av' values of that month over
\* exactly those indicators.
C10_AreaAverage ==
    /\ \A area \in Areas : \A m \in MonthsDone : \A ou \in DOMAIN peerGroupMap :
          /\ Cardinality(AreaAvgRecs(ou, m, area)) =
                IF AreaIndicators(ou, m, area) # {} THEN 1 ELSE 0
          /\ \A i \in AreaAvgRecs(ou, m, area) :
                NearestTo(output[i].value, AreaTotal(ou, m, area),
                          Cardinality(AreaIndicators(ou, m, area)))
    /\ \A i \in AllAreaAvgRecs :
          /\ output[i].orgUnit \in DOMAIN peerGroupMap
          /\ \E m \in MonthsDone : output[i].period = toMonth(m)

\* a facility with averages 11 and 14 in area N in one month (area average
\* 12), a peer with another average, and an indicator without area
C10_Witness ==
    /\ pc = "computed"
    /\ monthCount = 2
    /\ DOMAIN indicatorAreas = {DashA}
    /\ \E m \in MonthsDone :
          /\ Present(GroupP, DashA, FacA, m) # {}
          /\ Present(GroupP, DashB, FacA, m) # {}
          /\ AvValue(FacA, DashA, m) = 11
          /\ AvValue(FacA, DashB, m) = 14
          /\ \E i \in AreaAvgRecs(FacA, m, "N") : output[i].value = 11

\* both indicators in area N: averages 11 and 14 give the area average 12
C10_Witness2 ==
    /\ pc = "computed"
    /\ DOMAIN indicatorAreas = {DashA, DashB}
    /\ \E m \in MonthsDone :
          /\ AreaIndicators(FacA, m, "N") = {DashA, DashB}
          /\ AreaTotal(FacA, m, "N") = 25
          /\ \E i \in AreaAvgRecs(FacA, m, "N") : output[i].value = 12
          /\ AreaIndicators(FacC, m, "N") # {}

----------------------------------------------------------------------------
(* The statistics model: lines 411-429 applied to any list of at most      *)
(* MaxPeers rolling averages (one per contributing facility, in the order  *)
(* of the facilities).                                                     *)

StatValues == {10, 20, 30, 40}

Lists(n) == UNION { [1..k -> StatValues] : k \in 1..n }

StatInit ==
    /\ pc = "stat"
    /\ peerAverages \in Lists(MaxPeers)
    /\ stats = <<>>
    /\ thisMonthNumber = ThisMonth
    /\ orgUnitLevel = 1
    /\ peerLevel = orgUnitLevel + 1
    /\ monthCount = 1
    /\ groupSets = <<>>
    /\ peerGroupMap = EmptyDict
    /\ dataOrgUnitLevels = {}
    /\ indicatorAreas = EmptyDict
    /\ elementNameId = EmptyDict
    /\ input = EmptyDict
    /\ monthNumber = thisMonthNumber
    /\ output = <<>>
    /\ NoFetchLoop
    /\ NoOutput

\* lines 411-429 (and eregistries-analysis.py, lines 156-160)
StatCompute ==
    /\ pc = "stat"
    /\ pc' = "stat_done"
    /\ LET averages == Sort(peerAverages)
           count    == Len(averages)
       IN  stats' = [count     |-> count,
                     averages  |-> averages,
                     q         |-> Quartiles(averages),
                     analysisQ |-> AnalysisQuartiles(averages),
                     ranks     |-> [j \in 1..count |-> Ranks(averages, count, peerAverages[j])]]
    /\ UNCHANGED <<cfgVars, peerVars, fetchVars, calcVars, peerAverages, outVars>>

StatNext == StatCompute

SpecStat == StatInit /\ [][StatNext]_vars

\* the number of facilities whose average satisfies a comparison with x
NumLE(x) == Cardinality({k \in 1..Len(peerAverages) : peerAverages[k] <= x})
NumLT(x) == Cardinality({k \in 1..Len(peerAverages) : peerAverages[k] < x})
NumGT(x) == Cardinality({k \in 1..Len(peerAverages) : peerAverages[k] > x})

MaxAverage == CHOOSE x \in {peerAverages[k] : k \in 1..Len(peerAverages)} : NumGT(x) = 0

\* C3: bigRank = number of peers (itself included) whose average is <= the
\* facility's; smallRank = 1 + number of peers whose average is strictly
\* greater; percentile = the integer nearest to 100 * bigRank / n.  A
\* facility with the maximum average has bigRank n, smallRank 1 and
\* percentile 100; equal averages have equal ranks.
C3_Ranks ==
    pc = "stat_done" =>
       LET n == Len(peerAverages) IN
       /\ stats.count = n
       /\ \A j \in 1..n :
             /\ stats.ranks[j].bigRank = NumLE(peerAverages[j])
             /\ stats.ranks[j].smallRank = 1 + NumGT(peerAverages[j])
             /\ NearestTo(stats.ranks[j].percentile, 100 * NumLE(peerAverages[j]), n)
             /\ peerAverages[j] = MaxAverage
                   => stats.ranks[j] = [bigRank |-> n, percentile |-> 100, smallRank |-> 1]
             /\ \A k \in 1..n :
                   peerAverages[k] = peerAverages[j] => stats.ranks[k] = stats.ranks[j]

\* four facilities, two of them sharing the maximum average
C3_Witness ==
    /\ pc = "stat_done"
    /\ peerAverages = <<20, 30, 10, 30>>
    /\ stats.ranks[1] = [bigRank |-> 2, percentile |-> 50, smallRank |-> 3]
    /\ stats.ranks[2] = [bigRank |-> 4, percentile |-> 100, smallRank |-> 1]
    /\ stats.ranks[3] = [bigRank |-> 4 - 3, percentile |-> 25, smallRank |-> 4]
    /\ stats.ranks[4] = stats.ranks[2]

\* C14: for every facility of a peer group of n contributing facilities,
\* bigRank + smallRank = n + 1, 1 <= bigRank <= n and 1 <= smallRank <= n,
\* whatever the averages are, equal ones included.
C14_RanksComplementary ==
    pc = "stat_done" =>
       \A j \in 1..Len(peerAverages) :
          /\ stats.ranks[j].bigRank + stats.ranks[j].smallRank = Len(peerAverages) + 1
          /\ stats.ranks[j].bigRank \in 1..Len(peerAverages)
          /\ stats.ranks[j].smallRank \in 1..Len(peerAverages)

\* three facilities, the two best with equal averages: ranks (3, 1), (3, 1)
\* and (1, 3)
C14_Witness ==
    /\ pc = "stat_done"
    /\ peerAverages = <<30, 30, 10>>
    /\ stats.ranks[1].bigRank = 3 /\ stats.ranks[1].smallRank = 1
    /\ stats.ranks[2].bigRank = 3 /\ stats.ranks[2].smallRank = 1
    /\ stats.ranks[3].bigRank = 1 /\ stats.ranks[3].smallRank = 3

\* v is the element at zero-based index idx of the ascending list of the averages
OrderStat(v, idx) == NumLT(v) <= idx /\ idx < NumLE(v)

\* C4: with n averages, Q1, Q2 and Q3 are the elements of the ascending
\* list of the averages at the zero-based indices floor((n-1)/4),
\* floor((n-1)/2) and floor(3(n-1)/4), in dashcalc and in
\* eregistries-analysis; they are averages of the list, never interpolated.
C4_Quartiles ==
    pc = "stat_done" =>
       LET n == Len(peerAverages) IN
       \A q \in {stats.q, stats.analysisQ} :
          /\ OrderStat(q[1], (n - 1) \div 4)
          /\ OrderStat(q[2], (n - 1) \div 2)
          /\ OrderStat(q[3], (3 * (n - 1)) \div 4)

\* the averages 10, 20, 30, 40 in another order: Q1 = 10, Q2 = 20, Q3 = 30
C4_Witness ==
    /\ pc = "stat_done"
    /\ peerAverages = <<40, 10, 30, 20>>
    /\ stats.q = <<10, 20, 30>>
    /\ stats.analysisQ = <<10, 20, 30>>

----------------------------------------------------------------------------
(* The peer-group model: any 'Dashboard groups' group set of a group g of  *)
(* at most MaxGroupSize units and possibly a group h of at most one unit   *)
(* (or no group set), peer-group resolution, one analytics response per    *)
(* required level, and the month loop.                                     *)

ListedUnits == OrgUnits \ {FacX}

\* the lists of at most n different organisation units
RECURSIVE UnitLists(_)
UnitLists(n) ==
    IF n = 0 THEN {<<>>}
    ELSE UnitLists(n - 1)
         \cup { Append(l, u) : <<l, u>> \in { x \in UnitLists(n - 1) \X ListedUnits :
                                                /\ Len(x[1]) = n - 1
                                                /\ \A k \in 1..Len(x[1]) : x[1][k] # x[2] } }

OuGroup(nm, units, tmn) ==
    [name |-> nm, organisationUnits |-> [k \in 1..Len(units) |-> Facility(units[k], tmn)]]

GroupSetChoices(tmn) ==
    {<<>>}
    \cup { << [organisationUnitGroups |-> << OuGroup(<<"g">>, l, tmn) >>] >>
             : l \in UnitLists(MaxGroupSize) }
    \cup { << [organisationUnitGroups |-> << OuGroup(<<"g">>, l[1], tmn),
                                             OuGroup(<<"h">>, l[2], tmn) >>] >>
             : l \in UnitLists(MaxGroupSize) \X UnitLists(1) }

PeerInit ==
    /\ pc = "resolve"
    /\ thisMonthNumber = ThisMonth
    /\ orgUnitLevel \in 1..MaxLevel
    /\ groupSets \in GroupSetChoices(thisMonthNumber)
    /\ peerLevel \in IF groupSets = <<>> THEN 1..MaxLevel ELSE {orgUnitLevel + 1}
    /\ monthCount = 1
    /\ peerGroupMap = EmptyDict
    /\ dataOrgUnitLevels = {}
    /\ indicatorAreas = (DashA :> "N")
    /\ elementNameId = CalcElementNameId
    /\ input = EmptyDict
    /\ monthNumber = thisMonthNumber - monthCount
    /\ output = <<>>
    /\ NoFetchLoop
    /\ NoOutput
    /\ peerAverages = <<>>
    /\ stats = <<>>

\* lines 223-236: the group set exists
ResolveGroupSet ==
    /\ pc = "resolve"
    /\ groupSets # <<>>
    /\ LET r == ResolveGroups([map |-> peerGroupMap, levels |-> dataOrgUnitLevels],
                              groupSets[1].organisationUnitGroups,
                              orgUnitLevel, thisMonthNumber)
       IN  /\ peerGroupMap' = r.map
           /\ dataOrgUnitLevels' = r.levels
    /\ pc' = "levels"
    /\ UNCHANGED <<cfgVars, groupSets, fetchVars, calcVars, statVars, outVars>>

\* lines 243-250: no group set; the server lists the facilities of the peer level
ResolveLevelMode ==
    /\ pc = "resolve"
    /\ groupSets = <<>>
    /\ dataOrgUnitLevels' = dataOrgUnitLevels \cup {peerLevel}
    /\ LET units == items({u \in OrgUnits : LevelOf(u) = peerLevel})
           facilities == [k \in 1..Len(units) |-> Facility(units[k], thisMonthNumber)]
       IN  peerGroupMap' = ResolveLevel(peerGroupMap, facilities, orgUnitLevel, thisMonthNumber)
    /\ pc' = "levels"
    /\ UNCHANGED <<cfgVars, groupSets, fetchVars, calcVars, statVars, outVars>>

RECURSIVE StoreRows(_, _, _)
StoreRows(inp, pgm, rows) ==
    IF rows = <<>> THEN inp
    ELSE LET stored == StoreRow(inp, pgm, Head(rows))
         IN  IF stored = inp THEN StoreRows(inp, pgm, Tail(rows))    \* the row changed nothing
             ELSE StoreRows(stored, pgm, Tail(rows))

\* lines 294-317: the analytics rows of indicator dashA for the required
\* levels; every organisation unit of those levels reports a value for
\* last month
FetchLevels ==
    /\ pc = "levels"
    /\ LET units == items({u \in OrgUnits : LevelOf(u) \in dataOrgUnitLevels})
           rows  == [k \in 1..Len(units) |->
                       [dx |-> DashA, ou |-> units[k], pe |-> toMonth(thisMonthNumber - 1),
                        value |-> 11, denominator |-> 2]]
       IN  input' = StoreRows(input, peerGroupMap, rows)
    /\ pc' = "fetch"
    /\ UNCHANGED <<cfgVars, peerVars, fetchVars, monthNumber, output, statVars, outVars>>

PeerNext == ResolveGroupSet \/ ResolveLevelMode \/ FetchLevels \/ ComputeMonth

SpecPeer == PeerInit /\ [][PeerNext]_vars

\* the organisation units that the groups of the group set list
Listed ==
    IF groupSets = <<>> THEN {}
    ELSE UNION { {g.organisationUnits[k].id : k \in 1..Len(g.organisationUnits)}
                 : g \in {groupSets[1].organisationUnitGroups[j]
                            : j \in 1..Len(groupSets[1].organisationUnitGroups)} }

\* the name of the last group that lists u
LastGroupOf(u) ==
    LET gs == groupSets[1].organisationUnitGroups
        js == {j \in 1..Len(gs) :
                 \E k \in 1..Len(gs[j].organisationUnits) : gs[j].organisationUnits[k].id = u}
    IN  gs[CHOOSE j \in js : \A i \in js : i <= j].name

IsOpen(u) == u # FacD

HasRecord(u) == \E i \in 1..Len(output) : output[i].orgUnit = u

\* C6 as stated: in group-set mode a facility whose level is below
\* orgUnitLevel has no entry in peerGroupMap, its level is not among the
\* levels to fetch, and it has no output record.
C6_BelowLevelExcluded ==
    (groupSets # <<>> /\ pc # "resolve") =>
       \A u \in OrgUnits :
          LevelOf(u) < orgUnitLevel
             => /\ u \notin DOMAIN peerGroupMap
                /\ LevelOf(u) \notin dataOrgUnitLevels
                /\ ~HasRecord(u)

\* C6, amended: in group-set mode a facility at level 1 (its path holds no
\* parent) has no entry in peerGroupMap, level 1 is never among the levels
\* to fetch, and it never has an output record; an open facility of a group
\* at a level from 2 to orgUnitLevel is not excluded: its peer group is
\* its parent's id + '-' + the group's name, its level is among the levels
\* to fetch, and it receives output records when it has data.
C6_RootExcludedOthersByParent ==
    (groupSets # <<>> /\ pc # "resolve") =>
       /\ 1 \notin dataOrgUnitLevels
       /\ \A u \in OrgUnits :
             /\ LevelOf(u) = 1 => (u \notin DOMAIN peerGroupMap /\ ~HasRecord(u))
             /\ u \notin DOMAIN peerGroupMap => ~HasRecord(u)
             /\ (u \in Listed /\ IsOpen(u) /\ 1 < LevelOf(u) /\ LevelOf(u) <= orgUnitLevel)
                   => /\ u \in DOMAIN peerGroupMap
                      /\ peerGroupMap[u] = ParentOf[u] \o <<"-">> \o LastGroupOf(u)
                      /\ LevelOf(u) \in dataOrgUnitLevels
                      /\ pc = "computed" => HasRecord(u)

\* orgUnitLevel 3 and a group that lists R (level 1) and P (level 2):
\* R is left out, P is grouped under its parent R and receives records
C6_Witness ==
    /\ pc = "computed"
    /\ orgUnitLevel = 3
    /\ Listed = {UnitR, UnitP}
    /\ DOMAIN peerGroupMap = {UnitP}
    /\ peerGroupMap[UnitP] = UnitR \o <<"-", "g">>
    /\ dataOrgUnitLevels = {2}
    /\ HasRecord(UnitP) /\ ~HasRecord(UnitR) /\ ~HasRecord(UnitQ)

----------------------------------------------------------------------------
(* The 'Overall Rank: ' records of the compute model *)

\* positions of the batch that hold the 'Overall Rank: ' record of a facility and month
AreaRankRecs(ou, m, area) ==
    {i \in 1..Len(output) :
        /\ output[i].orgUnit = ou
        /\ output[i].period = toMonth(m)
        /\ output[i].dataElement = elementNameId[<<"Overall Rank: ", area>>]}

\* the facilities of the peer group of ou that have an area average in month m
AreaPeers(ou, m, area) ==
    {p \in Members(peerGroupMap[ou]) : AreaAvgRecs(p, m, area) # {}}

\* the area average put out for a facility that has one
AreaAvg(ou, m, area) == output[CHOOSE i \in AreaAvgRecs(ou, m, area) : TRUE].value

\* C11: the 'Overall Rank: <area>' value of a facility is its rank, small is
\* good, among the area averages of its peer group: a facility with the
\* largest area average receives 1, and a facility never receives a smaller
\* value than a peer whose area average is strictly greater.
C11_OverallRankSmallIsGood ==
    \A area \in Areas : \A m \in MonthsDone : \A ou \in DOMAIN peerGroupMap :
       \A i \in AreaRankRecs(ou, m, area) :
          /\ (\A p \in AreaPeers(ou, m, area) : AreaAvg(p, m, area) <= AreaAvg(ou, m, area))
                => output[i].value = 1
          /\ \A p \in AreaPeers(ou, m, area) : \A j \in AreaRankRecs(p, m, area) :
                AreaAvg(p, m, area) > AreaAvg(ou, m, area) => output[i].value >= output[j].value

----------------------------------------------------------------------------
(* The fetch model: the loop of lines 292-317 over the indicators, the     *)
(* required levels and the period chunks, every GET of d2get succeeding,   *)
(* returning a malformed response or raising.                              *)

\* line 293
InScope(id) == Slice(id, 0, 4) = Dash

\* line 291
allPeriods(tmn, count) ==
    [k \in 1..(count + 2) |-> toMonth(tmn - (count + 2) + (k - 1))]

\* the number of chunks with the division rounded down
NChunksFloor(count, mgm) == (count + 2) \div mgm

\* line 295: math.ceil( float(queryMonths) / maxGetMonths )
NChunks(count, mgm) == ((count + 2) + mgm - 1) \div mgm

\* line 296
lastQueryMonth(loopCount, count, mgm) ==
    IF (loopCount + 1) * mgm < count + 2 THEN (loopCount + 1) * mgm ELSE count + 2

\* line 297 (the list that ';'.join turns into the pe dimension)
selectPeriods(tmn, count, mgm, loopCount) ==
    Slice(allPeriods(tmn, count), loopCount * mgm, lastQueryMonth(loopCount, count, mgm))

\* line 294: the levels in the order the loop visits them
LevelSeq == items(dataOrgUnitLevels)

RECURSIVE NextInScope(_, _)
NextInScope(inds, j) ==
    IF j > Len(inds) \/ (InScope(inds[j]) /\ dataOrgUnitLevels # {}) THEN j
    ELSE NextInScope(inds, j + 1)

\* the position after a level of an indicator is left (by its last chunk or
\* by the break): the next level, or after the last level the next indicator
AfterLevel(p) ==
    IF p.l < Len(LevelSeq) THEN [i |-> p.i, l |-> p.l + 1, c |-> 0]
    ELSE [i |-> NextInScope(indicators, p.i + 1), l |-> 1, c |-> 0]

\* the position after a chunk whose rows were stored
AfterChunk(p) ==
    IF p.c + 1 < NChunks(monthCount, maxGetMonths) THEN [p EXCEPT !.c = @ + 1]
    ELSE AfterLevel(p)

\* the rows of an analytics response: every organisation unit of the level
\* reports a value for every requested period
ServerRows(dx, level, pe) ==
    LET units == items({u \in OrgUnits : LevelOf(u) = level})
    IN  [k \in 1..(Len(units) * Len(pe)) |->
            [dx |-> dx, ou |-> units[((k - 1) \div Len(pe)) + 1],
             pe |-> pe[((k - 1) % Len(pe)) + 1], value |-> 11, denominator |-> 2]]

\* a group set whose group lists P (level 2) and A and C (level 3)
MixedGroupSets ==
    << [organisationUnitGroups |->
          << [name |-> <<"g">>,
              organisationUnits |-> << Facility(UnitP, ThisMonth), Facility(FacA, ThisMonth),
                                       Facility(FacC, ThisMonth) >>] >>] >>

Other == <<"o", "t", "h", "r", "C">>

FetchInit ==
    /\ pc = "fetchloop"
    /\ thisMonthNumber = ThisMonth
    /\ \E cfg \in {<<2, CalcGroupSets>>, <<3, MixedGroupSets>>} :
          /\ orgUnitLevel = cfg[1]
          /\ groupSets = cfg[2]
          /\ LET r == ResolveGroups([map |-> EmptyDict, levels |-> {}],
                                    cfg[2][1].organisationUnitGroups, cfg[1], ThisMonth)
             IN  /\ peerGroupMap = r.map
                 /\ dataOrgUnitLevels = r.levels
    /\ peerLevel = orgUnitLevel + 1
    /\ monthCount \in 1..MaxCount
    /\ maxGetMonths \in 1..(monthCount + 3)
    /\ indicatorAreas = (DashA :> "N")
    /\ elementNameId = CalcElementNameId
    /\ indicators = <<DashA, Other, DashB>>
    /\ pos = [i |-> NextInScope(indicators, 1), l |-> 1, c |-> 0]
    /\ retry = 0
    /\ indicatorErrorCount = 0
    /\ requests = <<>>
    /\ failures = <<>>
    /\ NoOutput
    /\ input = EmptyDict
    /\ monthNumber = thisMonthNumber - monthCount
    /\ output = <<>>
    /\ peerAverages = <<>>
    /\ stats = <<>>

\* lines 295-299: the next analytics call starts
CallAnalytics ==
    /\ pc = "fetchloop"
    /\ pos.i <= Len(indicators)
    /\ requests' = Append(requests,
                      [dx |-> indicators[pos.i], level |-> LevelSeq[pos.l],
                       pe |-> selectPeriods(thisMonthNumber, monthCount, maxGetMonths, pos.c)])
    /\ retry' = 0
    /\ pc' = "d2get"
    /\ UNCHANGED <<cfgVars, peerVars, maxGetMonths, indicators, pos, indicatorErrorCount,
                   failures, calcVars, statVars, outVars>>

\* lines 196-199 and 303-317: the response holds rows; they are stored
GetRows ==
    /\ pc = "d2get"
    /\ LET rq == requests[Len(requests)]
       IN  input' = StoreRows(input, peerGroupMap, ServerRows(rq.dx, rq.level, rq.pe))
    /\ pos' = AfterChunk(pos)
    /\ pc' = "fetchloop"
    /\ UNCHANGED <<cfgVars, peerVars, maxGetMonths, indicators, retry, indicatorErrorCount,
                   requests, failures, monthNumber, output, statVars, outVars>>

\* lines 200-205: the response is malformed; d2get sleeps and tries again
GetRetry ==
    /\ pc = "d2get"
    /\ retry + 1 <= MaxRetry
    /\ retry' = retry + 1
    /\ UNCHANGED <<pc, cfgVars, peerVars, maxGetMonths, indicators, pos, indicatorErrorCount,
                   requests, failures, calcVars, statVars, outVars>>

\* lines 300-302: the except clause of the fetch loop and its break, which
\* leaves the loop over the period chunks
ExceptAndBreak ==
    /\ indicatorErrorCount' = indicatorErrorCount + 1
    /\ failures' = Append(failures, Len(requests))
    /\ pos' = AfterLevel(pos)
    /\ pc' = "fetchloop"
    /\ UNCHANGED <<cfgVars, peerVars, maxGetMonths, indicators, requests, calcVars, statVars, outVars>>

\* lines 200-204: the response is malformed and retry exceeds 3; d2get raises
GetGivesUp ==
    /\ pc = "d2get"
    /\ retry + 1 > MaxRetry
    /\ retry' = retry + 1
    /\ ExceptAndBreak

\* line 196: requests.get itself raises; the error leaves d2get at once
GetRaises ==
    /\ pc = "d2get"
    /\ retry' = retry
    /\ ExceptAndBreak

\* the loop over the indicators ends; the month loop follows
FetchEnd ==
    /\ pc = "fetchloop"
    /\ pos.i > Len(indicators)
    /\ pc' = "fetch"
    /\ UNCHANGED <<cfgVars, peerVars, fetchVars, calcVars, statVars, outVars>>

FetchNext ==
    CallAnalytics \/ GetRows \/ GetRetry \/ GetGivesUp \/ GetRaises \/ FetchEnd \/ ComputeMonth

SpecFetch == FetchInit /\ [][FetchNext]_vars

\* C7: after an analytics call for an indicator has failed for good (its
\* error reached the except clause), no further analytics call is made for
\* that indicator, at any level; the error counter counts each failed
\* indicator once; the run goes on, and every in-scope indicator has been
\* asked for when the loop ends.
C7_FailureEndsIndicator ==
    /\ \A f \in 1..Len(failures) : \A k \in 1..Len(requests) :
          k > failures[f] => requests[k].dx # requests[failures[f]].dx
    /\ indicatorErrorCount = Cardinality({requests[failures[f]].dx : f \in 1..Len(failures)})
    /\ pc \in {"fetch", "compute", "computed"} =>
          \A j \in 1..Len(indicators) :
             InScope(indicators[j]) => \E k \in 1..Len(requests) : requests[k].dx = indicators[j]

----------------------------------------------------------------------------
(* The output model: putOut (lines 368-378) called toPut times by the      *)
(* month loop, flushOutput (lines 343-363) with every outcome of its POST, *)
(* and the final flushOutput of line 464.                                  *)

\* the record of the k-th putOut call of the run
PutRecord(k) == DataValue(FacA, toMonth(ThisMonth - 1), Elem(DashA, "A", "v"), k)

\* what a POST of the pending batch carries
Batch ==
    [flush |-> Len(flushes) + 1,
     first |-> IF output = <<>> THEN 0 ELSE output[1].value,
     size  |-> Len(output)]

Totals == <<totalImported, totalUpdated, totalIgnored>>

OutInit ==
    /\ pc = "put"
    /\ thisMonthNumber = ThisMonth
    /\ orgUnitLevel = 2
    /\ peerLevel = orgUnitLevel + 1
    /\ monthCount = 1
    /\ groupSets = CalcGroupSets
    /\ peerGroupMap = CalcPeerGroupMap
    /\ dataOrgUnitLevels = CalcResolved.levels
    /\ indicatorAreas = (DashA :> "N")
    /\ elementNameId = CalcElementNameId
    /\ input = EmptyDict
    /\ monthNumber = thisMonthNumber - monthCount
    /\ output = <<>>
    /\ NoFetchLoop
    /\ totalImported = 0
    /\ totalUpdated = 0
    /\ totalIgnored = 0
    /\ flushRetry = 0
    /\ toPut \in {1} \cup ((FlushThreshold - 1)..(FlushThreshold + MaxExtraRecords))
    /\ produced = 0
    /\ finishing = FALSE
    /\ posts = <<>>
    /\ flushes = <<>>
    /\ peerAverages = <<>>
    /\ stats = <<>>

\* lines 368-378: putOut appends the record and, at 4000 records, calls flushOutput
PutOut ==
    /\ pc = "put"
    /\ produced < toPut
    /\ produced' = produced + 1
    /\ output' = Append(output, PutRecord(produced + 1))
    /\ pc' = IF Len(output') >= FlushThreshold THEN "post" ELSE "put"
    /\ flushRetry' = 0
    /\ UNCHANGED <<cfgVars, peerVars, fetchVars, input, monthNumber, statVars,
                   totalImported, totalUpdated, totalIgnored, toPut, finishing, posts, flushes>>

\* line 464: the month loop has ended; the script calls flushOutput
FinalFlush ==
    /\ pc = "put"
    /\ produced = toPut
    /\ finishing' = TRUE
    /\ flushRetry' = 0
    /\ pc' = "post"
    /\ UNCHANGED <<cfgVars, peerVars, fetchVars, calcVars, statVars,
                   totalImported, totalUpdated, totalIgnored, toPut, produced, posts, flushes>>

\* the return of flushOutput without line 363: the batch is kept
FlushReturnsKeepsBatch(success, after) ==
    /\ output' = output
    /\ flushes' = Append(flushes, [size |-> Len(output), posts |-> Len(posts') - Len(posts) + flushRetry,
                                   final |-> finishing, success |-> success,
                                   before |-> Totals, after |-> after])
    /\ pc' = IF finishing THEN "done" ELSE "put"

\* line 363 and the return of flushOutput
FlushReturns(success, after) ==
    /\ output' = <<>>
    /\ flushes' = Append(flushes, [size |-> Len(output), posts |-> Len(posts') - Len(posts) + flushRetry,
                                   final |-> finishing, success |-> success,
                                   before |-> Totals, after |-> after])
    /\ pc' = IF finishing THEN "done" ELSE "put"

\* lines 350-358: the POST is answered and counts as a success: the answer
\* is a 200 (code = 200), or it is not but its importCount has ignored # 0
PostSucceeds(code, imported, updated, ignored) ==
    /\ pc = "post"
    /\ posts' = Append(posts, Batch @@ [code |-> code, outcome |-> "counts"])
    /\ totalImported' = totalImported + imported
    /\ totalUpdated' = totalUpdated + updated
    /\ totalIgnored' = totalIgnored + ignored
    /\ FlushReturns(TRUE, <<totalImported', totalUpdated', totalIgnored'>>)
    /\ UNCHANGED <<cfgVars, peerVars, fetchVars, input, monthNumber, statVars,
                   flushRetry, toPut, produced, finishing>>

\* a 200 answer: the server imported or updated every data value
PostImported ==
    \E updated \in {0, Len(output)} : PostSucceeds(200, Len(output) - updated, updated, 0)

\* a 409 answer whose importCount ignores one data value (data element not found)
PostIgnored ==
    /\ output # <<>>
    /\ PostSucceeds(409, Len(output) - 1, 0, 1)

\* lines 350-351 and 359-363: the answer is not a 200 and its importCount has
\* ignored = 0: flushOutput sleeps and posts again, at most 20 times in all;
\* after the 20th it prints the status and clears the batch
PostRejected ==
    /\ pc = "post"
    /\ posts' = Append(posts, Batch @@ [code |-> 500, outcome |-> "counts"])
    /\ IF flushRetry + 1 < MaxPosts
       THEN /\ flushRetry' = flushRetry + 1
            /\ UNCHANGED <<pc, output, flushes>>
       ELSE /\ flushRetry' = flushRetry
            /\ FlushReturns(FALSE, Totals)
    /\ UNCHANGED <<cfgVars, peerVars, fetchVars, input, monthNumber, statVars,
                   totalImported, totalUpdated, totalIgnored, toPut, produced, finishing>>

\* lines 350-351: nothing catches an error of the POST; the script ends
Uncaught ==
    /\ pc' = "aborted"
    /\ UNCHANGED <<cfgVars, peerVars, fetchVars, calcVars, statVars,
                   totalImported, totalUpdated, totalIgnored, flushRetry, toPut, produced,
                   finishing, flushes>>

\* line 351: the answer is not a 200 and its body is no JSON, or has no
\* importCount: status.json()['importCount'] raises
PostNoImportCount ==
    /\ pc = "post"
    /\ posts' = Append(posts, Batch @@ [code |-> 502, outcome |-> "no importCount"])
    /\ Uncaught

\* line 209: requests.post raises (the server cannot be reached)
PostRaises ==
    /\ pc = "post"
    /\ posts' = Append(posts, Batch @@ [code |-> 0, outcome |-> "raised"])
    /\ Uncaught

OutNext ==
    PutOut \/ FinalFlush \/ PostImported \/ PostIgnored \/ PostRejected
    \/ PostNoImportCount \/ PostRaises

SpecOut == OutInit /\ [][OutNext]_vars

\* C8: flushOutput never ends the run: whatever the POSTs answer, it posts
\* at most 20 times, and when no POST succeeds it returns with the batch
\* cleared and never posted again, the totals unchanged, and the run goes on
\* to put out and post the remaining records.
C8_FlushNeverAborts ==
    /\ pc # "aborted"
    /\ flushRetry < MaxPosts
    /\ \A k \in 1..Len(flushes) :
          /\ flushes[k].posts <= MaxPosts
          /\ ~flushes[k].success =>
                /\ flushes[k].posts = MaxPosts
                /\ flushes[k].after = flushes[k].before
    /\ \A i, j \in 1..Len(posts) :
          (posts[i].flush < posts[j].flush /\ posts[j].size > 0)
             => posts[i].first + posts[i].size <= posts[j].first
    /\ pc = "done" => produced = toPut

\* C9: the batch is flushed exactly when it reaches 4000 records or when the
\* run completes: after every return of putOut fewer than 4000 records are
\* pending, no POST carries more than 4000 records, and when the run has
\* ended, however its POSTs went, a flush has followed the last record and
\* the pending batch is empty.
C9_FlushAtThresholdOrEnd ==
    /\ pc = "put" => Len(output) < FlushThreshold
    /\ \A i \in 1..Len(posts) : posts[i].size <= FlushThreshold
    /\ \A k \in 1..Len(flushes) : flushes[k].size = FlushThreshold \/ flushes[k].final
    /\ pc \in {"done", "aborted"} =>
          /\ output = <<>>
          /\ finishing
          /\ posts # <<>>
          /\ posts[Len(posts)].first + posts[Len(posts)].size \in {0, produced + 1}

\* the period lists, concatenated in request order, of the first k analytics
\* calls that asked for indicator dx at the given level
RECURSIVE PeriodsAsked(_, _, _)
PeriodsAsked(dx, level, k) ==
    IF k = 0 THEN <<>>
    ELSE PeriodsAsked(dx, level, k - 1)
         \o (IF requests[k].dx = dx /\ requests[k].level = level THEN requests[k].pe ELSE <<>>)

\* an analytics call for (dx, level) has failed for good
FailedFor(dx, level) ==
    \E f \in 1..Len(failures) :
        requests[failures[f]].dx = dx /\ requests[failures[f]].level = level

\* the indicators and levels that the fetch loop asks for
AskedIndicators == {indicators[j] : j \in {j \in 1..Len(indicators) : InScope(indicators[j])}}

\* the months of the windows of all target months
WindowMonths ==
    UNION {Window(m) : m \in (thisMonthNumber - monthCount)..(thisMonthNumber - 1)}

\* C12: for each in-scope indicator and required level of which no request
\* failed, every request asks for at least one and at most maxGetMonths
\* periods, no period is asked for twice, and the periods asked for so far
\* are, in request order, the first of the count+2 months that precede the
\* current month; once the fetch loop has ended they are exactly these
\* count+2 months, which are the months of the windows of all target months.
C12_PeriodChunks ==
    \A dx \in AskedIndicators : \A level \in dataOrgUnitLevels :
       ~FailedFor(dx, level) =>
          LET asked == PeriodsAsked(dx, level, Len(requests))
          IN  /\ \A k \in 1..Len(requests) :
                    (requests[k].dx = dx /\ requests[k].level = level)
                       => Len(requests[k].pe) \in 1..maxGetMonths
              /\ Len(asked) <= monthCount + 2
              /\ \A n \in 1..Len(asked) :
                    /\ toNumber(asked[n]) = thisMonthNumber - (monthCount + 2) + (n - 1)
                    /\ asked[n] = toMonth(toNumber(asked[n]))
              /\ pc \in {"fetch", "compute", "computed"} =>
                    /\ Len(asked) = monthCount + 2
                    /\ {toNumber(asked[n]) : n \in 1..Len(asked)} = WindowMonths
                    /\ thisMonthNumber \notin {toNumber(asked[n]) : n \in 1..Len(asked)}

\* four months fetched three at a time, at two levels, without a failure:
\* each (indicator, level) is asked for in a chunk of three months and one
\* of one month
C12_Witness ==
    /\ pc = "fetch"
    /\ monthCount = 2
    /\ maxGetMonths = 3
    /\ dataOrgUnitLevels = {2, 3}
    /\ failures = <<>>
    /\ Len(requests) = 8
    /\ Len(requests[1].pe) = 3
    /\ Len(requests[2].pe) = 1
    /\ requests[2].pe[1] = toMonth(thisMonthNumber - 1)
    /\ requests[3].level # requests[2].level

\* the flushOutput calls that have posted, and the batch that call f posted
FlushesPosted == {posts[i].flush : i \in 1..Len(posts)}

BatchOf(f) == posts[CHOOSE i \in 1..Len(posts) : posts[i].flush = f]

\* the number of records in the batches of the flushOutput calls before call f
RECURSIVE SizeBefore(_)
SizeBefore(f) ==
    IF f <= 1 THEN 0
    ELSE SizeBefore(f - 1) + (IF f - 1 \in FlushesPosted THEN BatchOf(f - 1).size ELSE 0)

====
